---- MODULE Spec2Model ----
(***************************************************************************)
(* A model of python-xymon-client:                                         *)
(*   - Xymons, the multi-target dispatcher       (xymon.py, 414-487)        *)
(*   - Xymon.__call__, the transport             (xymon.py,  97-126)        *)
(*   - the command encoders of Xymon             (xymon.py, 129-410)        *)
(*   - Helper, the message buffer                (helpers.py, 34-158)       *)
(* Each part has its own specification; the variables of the other parts   *)
(* stay at their initial value under it.                                   *)
(*                                                                         *)
(* Python strings are sequences of one-character strings.                  *)
(***************************************************************************)
EXTENDS Integers, Sequences, FiniteSets, TLC

\* ------------------------------------------------------------------------
\* Bounds
\* ------------------------------------------------------------------------

\* The longest list of servers given to Xymons.
MaxChildren == 3

\* ------------------------------------------------------------------------
\* State
\* ------------------------------------------------------------------------

\* Xymons, the dispatcher
VARIABLES
    children,   \* Xymons.children: the clients are numbered 1..children
    name,       \* the attribute name asked of the dispatcher
    fate,       \* what each child's call does: "raise", or the value it returns
    pc,         \* per dispatcher object: where its call stands
    idx,        \* per dispatcher object: the loop position (a child number)
    result,     \* per dispatcher object: the local dict `result`
    invoked,    \* per dispatcher object: the children whose command was called, in call order
    errlog,     \* per dispatcher object: the children logger.error was called for
    tasks,      \* per dispatcher object: the state of each child's AsyncResult
    pool        \* per dispatcher object: the ThreadPool

\* Xymon.__call__, the transport
VARIABLES
    xpc,        \* where the call of __call__ stands
    xdata,      \* the data argument
    xblind,     \* the blind argument
    sock,       \* the socket: "none", "open", "closed"
    sockops,    \* the methods called on the socket, in call order
    wire,       \* the bytes handed to sock.sendall
    arrived,    \* the chunks sock.recv has returned, in arrival order
    xresult,    \* the local list `result`
    xret        \* the value returned

\* Xymon, the command methods
VARIABLES
    sender,     \* Xymon.sender
    ecmd,       \* the command method called last
    eargs,      \* its arguments
    payload     \* what it handed to self(...), the transport

\* Helper, the message buffer
VARIABLES
    hdefaults,  \* Helper.defaults
    hdata,      \* Helper.data, the buffer
    hop,        \* the operation done last on the helper, and how it ended
    hcall,      \* the last call made on Helper.xymon: its name and keyword arguments
    hncalls,    \* how many calls were made on Helper.xymon
    hnops       \* how many operations were done on the helper

\* Xymon.ghostlist, the decoder of the reply
VARIABLES
    gpc,        \* where the call of ghostlist stands
    greply,     \* what self('ghostlist') returned
    glines,     \* the lines the for loop has yet to visit
    gdata,      \* the local list `data`
    glog        \* the lines logger.error was called with, in call order

dvars == <<children, name, fate, pc, idx, result, invoked, errlog, tasks, pool>>

xvars == <<xpc, xdata, xblind, sock, sockops, wire, arrived, xresult, xret>>

evars == <<sender, ecmd, eargs, payload>>

hvars == <<hdefaults, hdata, hop, hcall, hncalls, hnops>>

gvars == <<gpc, greply, glines, gdata, glog>>

vars == <<dvars, xvars, evars, hvars, gvars>>

\* What a step of one part leaves alone: the state of the other parts.
notDispatch == <<xvars, evars, hvars, gvars>>

notTransport == <<dvars, evars, hvars, gvars>>

notEncode == <<dvars, xvars, hvars, gvars>>

notHelper == <<dvars, xvars, evars, gvars>>

notGhostlist == <<dvars, xvars, evars, hvars>>

\* ------------------------------------------------------------------------
\* Python helpers
\* ------------------------------------------------------------------------

\* dict: a function whose domain is the set of keys; {} is the empty function.
EmptyDict == << >>

\* d[k] = v
DictSet(d, k, v) == [x \in (DOMAIN d) \cup {k} |-> IF x = k THEN v ELSE d[x]]

\* ========================================================================
\* Part 1: Xymons, the multi-target dispatcher
\* ========================================================================

\* Two dispatchers built on the same servers: Xymons(servers, thread=False) and
\* Xymons(servers, thread=True).
Dispatchers == {"seq", "thr"}

\* Xymons.thread
thread == [d \in Dispatchers |-> d = "thr"]

\* The values a child's call returns.
Replies == {"r1", "r2"}

\* The attribute names asked of the dispatcher: a command that talks to the
\* server, a command that always raises NotImplementedError, and a name that
\* is no attribute of Xymon.
Names == {"ping", "client", "nosuch"}

\* hasattr(child, name): every child is a Xymon.
HasAttr(n) == n \in {"ping", "client"}

\* What getattr(child, name)(*args, **kwargs) does once the attribute is found:
\* client() raises NotImplementedError, a transmitting command does what the
\* network lets it do.
CallOutcome(n, c) == IF n = "client" THEN "raise" ELSE fate[c]

\* Xymons.__getattr__: the procedure a call of the dispatcher runs.
GetAttr(d) == IF ~thread[d] THEN "_apply" ELSE "_apply_async"

DispatchInit ==
    /\ children \in 1..MaxChildren
    /\ name \in Names
    /\ fate \in [1..children -> {"raise"} \cup Replies]
    /\ pc = [d \in Dispatchers |-> "idle"]
    /\ idx = [d \in Dispatchers |-> 0]
    /\ result = [d \in Dispatchers |-> EmptyDict]
    /\ invoked = [d \in Dispatchers |-> << >>]
    /\ errlog = [d \in Dispatchers |-> {}]
    /\ tasks = [d \in Dispatchers |-> [c \in 1..children |-> "none"]]
    /\ pool = [d \in Dispatchers |-> "none"]

\* _apply, lines 434-435: result = {} and the loop starts.
ApplyStart(d) ==
    /\ pc[d] = "idle"
    /\ GetAttr(d) = "_apply"
    /\ pc' = [pc EXCEPT ![d] = "loop"]
    /\ idx' = [idx EXCEPT ![d] = 1]
    /\ result' = [result EXCEPT ![d] = EmptyDict]
    /\ UNCHANGED <<children, name, fate, invoked, errlog, tasks, pool, notDispatch>>

\* A slip in the loop of _apply: the failure is stored in the dict.
ApplyStepBody_RecordsFailure(d) ==
    LET child == idx[d] IN
    /\ IF ~HasAttr(name)
          THEN /\ errlog' = [errlog EXCEPT ![d] = @ \cup {child}]
               /\ result' = [result EXCEPT ![d] = DictSet(@, child, "raise")]
               /\ UNCHANGED invoked
          ELSE /\ invoked' = [invoked EXCEPT ![d] = Append(@, child)]
               /\ result' = [result EXCEPT ![d] = DictSet(@, child, CallOutcome(name, child))]
               /\ errlog' = [errlog EXCEPT
                                ![d] = IF CallOutcome(name, child) = "raise"
                                          THEN @ \cup {child} ELSE @]
    /\ idx' = [idx EXCEPT ![d] = child + 1]
    /\ UNCHANGED pc

\* A slip in the loop of _apply: no try around the call, a failure leaves the loop.
ApplyStepBody_Aborts(d) ==
    LET child == idx[d] IN
    /\ IF ~HasAttr(name)
          THEN /\ pc' = [pc EXCEPT ![d] = "raised"]
               /\ UNCHANGED <<result, invoked, errlog, idx>>
          ELSE /\ invoked' = [invoked EXCEPT ![d] = Append(@, child)]
               /\ IF CallOutcome(name, child) = "raise"
                     THEN /\ pc' = [pc EXCEPT ![d] = "raised"]
                          /\ UNCHANGED <<result, idx>>
                     ELSE /\ result' = [result EXCEPT
                                          ![d] = DictSet(@, child, CallOutcome(name, child))]
                          /\ idx' = [idx EXCEPT ![d] = child + 1]
                          /\ UNCHANGED pc
               /\ UNCHANGED errlog

\* One iteration of the loop of _apply, lines 435-446: the bare except takes
\* whatever getattr or the call raises, logs it, and the loop goes on.
ApplyStepBody(d) ==
    LET child == idx[d] IN
    /\ IF ~HasAttr(name)
          THEN \* getattr raises AttributeError inside the try
               /\ errlog' = [errlog EXCEPT ![d] = @ \cup {child}]
               /\ UNCHANGED <<result, invoked>>
          ELSE /\ invoked' = [invoked EXCEPT ![d] = Append(@, child)]
               /\ IF CallOutcome(name, child) = "raise"
                     THEN /\ errlog' = [errlog EXCEPT ![d] = @ \cup {child}]
                          /\ UNCHANGED result
                     ELSE /\ result' = [result EXCEPT
                                          ![d] = DictSet(@, child, CallOutcome(name, child))]
                          /\ UNCHANGED errlog
    /\ idx' = [idx EXCEPT ![d] = child + 1]
    /\ UNCHANGED pc

ApplyStep(d) ==
    /\ pc[d] = "loop"
    /\ idx[d] <= children
    /\ ApplyStepBody(d)
    /\ UNCHANGED <<children, name, fate, tasks, pool, notDispatch>>

\* _apply, line 447: return result.
ApplyReturn(d) ==
    /\ pc[d] = "loop"
    /\ idx[d] > children
    /\ pc' = [pc EXCEPT ![d] = "returned"]
    /\ UNCHANGED <<children, name, fate, idx, result, invoked, errlog, tasks, pool, notDispatch>>

\* _apply_async, lines 455-459: result = {} and the pool is created.
AsyncStart(d) ==
    /\ pc[d] = "idle"
    /\ GetAttr(d) = "_apply_async"
    /\ pc' = [pc EXCEPT ![d] = "submit"]
    /\ idx' = [idx EXCEPT ![d] = 1]
    /\ result' = [result EXCEPT ![d] = EmptyDict]
    /\ pool' = [pool EXCEPT ![d] = "open"]
    /\ UNCHANGED <<children, name, fate, invoked, errlog, tasks, notDispatch>>

\* One item of the dict comprehension, lines 460-466: getattr(child, name) is
\* evaluated here, in the caller's thread and outside the inner try; then the
\* task is handed to the pool.
AsyncSubmitBody(d) ==
    LET child == idx[d] IN
    IF ~HasAttr(name)
       THEN \* AttributeError leaves the outer try through finally
            /\ pc' = [pc EXCEPT ![d] = "finally_raise"]
            /\ UNCHANGED <<idx, tasks>>
       ELSE /\ tasks' = [tasks EXCEPT ![d][child] = "queued"]
            /\ idx' = [idx EXCEPT ![d] = IF child = children THEN 1 ELSE child + 1]
            /\ pc' = [pc EXCEPT ![d] = IF child = children THEN "collect" ELSE "submit"]

AsyncSubmit(d) ==
    /\ pc[d] = "submit"
    /\ AsyncSubmitBody(d)
    /\ UNCHANGED <<children, name, fate, result, invoked, errlog, pool, notDispatch>>

\* A worker of the pool takes the task of child c and calls the command.
\* The pool has one worker per child, so any queued task may start.
WorkerCall(d, c) ==
    /\ pool[d] = "open"
    /\ tasks[d][c] = "queued"
    /\ tasks' = [tasks EXCEPT ![d][c] = "running"]
    /\ invoked' = [invoked EXCEPT ![d] = Append(@, c)]
    /\ UNCHANGED <<children, name, fate, pc, idx, result, errlog, pool, notDispatch>>

\* The call of child c ends: the AsyncResult holds its value or its exception.
WorkerDone(d, c) ==
    /\ tasks[d][c] = "running"
    /\ tasks' = [tasks EXCEPT
                   ![d][c] = IF CallOutcome(name, c) = "raise" THEN "failed" ELSE "ready"]
    /\ UNCHANGED <<children, name, fate, pc, idx, result, invoked, errlog, pool, notDispatch>>

\* One iteration of the loop over tasks.items(), lines 467-478: task.get()
\* blocks until the task has ended, then returns its value or raises its
\* exception.
AsyncCollectBody(d) ==
    LET child == idx[d] IN
    /\ IF tasks[d][child] = "failed"
          THEN /\ errlog' = [errlog EXCEPT ![d] = @ \cup {child}]
               /\ UNCHANGED result
          ELSE /\ result' = [result EXCEPT ![d] = DictSet(@, child, CallOutcome(name, child))]
               /\ UNCHANGED errlog
    /\ idx' = [idx EXCEPT ![d] = child + 1]
    /\ pc' = [pc EXCEPT ![d] = IF child = children THEN "finally" ELSE "collect"]

AsyncCollect(d) ==
    /\ pc[d] = "collect"
    /\ tasks[d][idx[d]] \in {"ready", "failed"}
    /\ AsyncCollectBody(d)
    /\ UNCHANGED <<children, name, fate, invoked, tasks, pool, notDispatch>>

\* finally: pool.close(), lines 479-481; then return result, or the pending
\* exception goes on to the caller.
AsyncFinally(d) ==
    /\ pc[d] \in {"finally", "finally_raise"}
    /\ pool' = [pool EXCEPT ![d] = "closed"]
    /\ pc' = [pc EXCEPT ![d] = IF pc[d] = "finally" THEN "returned" ELSE "raised"]
    /\ UNCHANGED <<children, name, fate, idx, result, invoked, errlog, tasks, notDispatch>>

\* The steps of one dispatcher's call, its pool's workers included.
DispatcherStep(d) ==
    \/ ApplyStart(d)
    \/ ApplyStep(d)
    \/ ApplyReturn(d)
    \/ AsyncStart(d)
    \/ AsyncSubmit(d)
    \/ \E c \in 1..children : WorkerCall(d, c)
    \/ \E c \in 1..children : WorkerDone(d, c)
    \/ AsyncCollect(d)
    \/ AsyncFinally(d)

DispatchNext ==
    \/ \E d \in Dispatchers : ApplyStart(d)
    \/ \E d \in Dispatchers : ApplyStep(d)
    \/ \E d \in Dispatchers : ApplyReturn(d)
    \/ \E d \in Dispatchers : AsyncStart(d)
    \/ \E d \in Dispatchers : AsyncSubmit(d)
    \/ \E d \in Dispatchers, c \in 1..children : WorkerCall(d, c)
    \/ \E d \in Dispatchers, c \in 1..children : WorkerDone(d, c)
    \/ \E d \in Dispatchers : AsyncCollect(d)
    \/ \E d \in Dispatchers : AsyncFinally(d)

\* ------------------------------------------------------------------------
\* Claims about the dispatcher
\* ------------------------------------------------------------------------

\* The children whose call returns a value, and the children whose call
\* (or attribute lookup) raises.
Succeeding == {c \in 1..children : HasAttr(name) /\ CallOutcome(name, c) # "raise"}
Failing == (1..children) \ Succeeding

C2_FailureNeverAborts ==
    \A d \in Dispatchers :
        HasAttr(name) =>
            /\ pc[d] \notin {"raised", "finally_raise"}
            /\ pc[d] \notin {"idle", "returned"} => ENABLED DispatcherStep(d)
            /\ ~thread[d] /\ pc[d] = "loop" => invoked[d] = [i \in 1..(idx[d] - 1) |-> i]
            /\ pc[d] = "returned" =>
                  /\ Len(invoked[d]) = children
                  /\ {invoked[d][i] : i \in 1..children} = 1..children
                  /\ ~thread[d] => invoked[d] = [i \in 1..children |-> i]
                  /\ \A c \in Succeeding :
                        c \in DOMAIN result[d] /\ result[d][c] = CallOutcome(name, c)

\* C2's case: the first target fails, a later one succeeds, and both
\* dispatchers have returned.
C2_Witness ==
    /\ HasAttr(name)
    /\ children = MaxChildren
    /\ 1 \in Failing
    /\ children \in Succeeding
    /\ \A d \in Dispatchers : pc[d] = "returned" /\ children \in DOMAIN result[d]

\* A dispatcher call has ended: it returned a mapping or it raised.
Ended(d) == pc[d] \in {"returned", "raised"}

\* C3, as stated: for the same targets, the same name and the same outcome of
\* every target's call, the call with thread=False and the call with
\* thread=True end alike and return mappings with identical contents.
C3_ModesEquivalent ==
    (Ended("seq") /\ Ended("thr")) =>
        /\ pc["seq"] = pc["thr"]
        /\ result["seq"] = result["thr"]

\* ========================================================================
\* Part 2: Xymon.__call__, the transport
\* ========================================================================

\* str.join of a list of strings with the empty separator
RECURSIVE Join(_)
Join(list) == IF list = << >> THEN << >> ELSE Head(list) \o Join(Tail(list))

\* The characters of the model outside ASCII, and the bytes outside ASCII.
NonAsciiChars == {"e_acute"}
NonAsciiBytes == {"0xC3", "0xA9", "0xFF"}

\* The numeric character reference of a character outside ASCII.
CharRef(c) == <<"&", "#", "2", "3", "3", ";">>

\* data.encode('ascii', 'xmlcharrefreplace'), line 117
EncodeAsciiXmlCharRef(text) ==
    Join([i \in 1..Len(text) |->
            IF text[i] \in NonAsciiChars THEN CharRef(text[i]) ELSE <<text[i]>>])

\* bytearray.decode with errors='ignore' (line 115): a well-formed sequence
\* becomes its character, every other byte outside ASCII is dropped.
RECURSIVE DecodeUtf8Ignore(_)
DecodeUtf8Ignore(bytes) ==
    IF bytes = << >> THEN << >>
    ELSE IF Len(bytes) >= 2 /\ bytes[1] = "0xC3" /\ bytes[2] = "0xA9"
         THEN <<"e_acute">> \o DecodeUtf8Ignore(Tail(Tail(bytes)))
    ELSE IF Head(bytes) \in NonAsciiBytes
         THEN DecodeUtf8Ignore(Tail(bytes))
    ELSE <<Head(bytes)>> \o DecodeUtf8Ignore(Tail(bytes))

\* Whether bytes are well-formed UTF-8: otherwise decode('utf8') raises
\* UnicodeDecodeError.
RECURSIVE WellFormedUtf8(_)
WellFormedUtf8(bytes) ==
    IF bytes = << >> THEN TRUE
    ELSE IF Len(bytes) >= 2 /\ bytes[1] = "0xC3" /\ bytes[2] = "0xA9"
         THEN WellFormedUtf8(Tail(Tail(bytes)))
    ELSE IF Head(bytes) \in NonAsciiBytes THEN FALSE
    ELSE WellFormedUtf8(Tail(bytes))

\* bytearray.decode('utf8') of well-formed bytes (line 113)
RECURSIVE DecodeUtf8(_)
DecodeUtf8(bytes) ==
    IF bytes = << >> THEN << >>
    ELSE IF Head(bytes) = "0xC3"
         THEN <<"e_acute">> \o DecodeUtf8(Tail(Tail(bytes)))
    ELSE <<Head(bytes)>> \o DecodeUtf8(Tail(bytes))

\* Lines 111-115: a bytearray is decoded as UTF-8, and permissively when that
\* raises UnicodeDecodeError.
DecodeBytearray(bytes) ==
    IF WellFormedUtf8(bytes) THEN DecodeUtf8(bytes) ELSE DecodeUtf8Ignore(bytes)

\* chunk.decode('ascii', 'replace'), line 124: a byte outside ASCII becomes
\* U+FFFD.
DecodeAsciiReplace(chunk) ==
    [i \in 1..Len(chunk) |-> IF chunk[i] \in NonAsciiBytes THEN "U+FFFD" ELSE chunk[i]]

\* The most chunks a peer sends before it closes.
MaxChunks == 2

\* The chunks sock.recv(4096) may return before the peer closes.
Chunks == {<<"o">>, <<"k", "0xFF">>}

\* The values of the data argument: str, bytearray, and an object with no
\* encode method (bytes on Python 3, a number).
DataValues ==
    {[kind |-> "str", val |-> v] : v \in {<<"p">>, <<"p", "e_acute">>}}
    \cup {[kind |-> "bytearray", val |-> v] :
            v \in {<<"p">>, <<"0xC3", "0xA9">>, <<"p", "0xFF">>}}
    \cup {[kind |-> "other", val |-> << >>]}

XInit ==
    /\ xpc = "idle"
    /\ xdata = [kind |-> "str", val |-> << >>]
    /\ xblind = FALSE
    /\ sock = "none"
    /\ sockops = << >>
    /\ wire = << >>
    /\ arrived = << >>
    /\ xresult = << >>
    /\ xret = << >>

\* Lines 107-109: result = [], the socket is created and its timeout set.
XCall(data, blind) ==
    /\ xpc = "idle"
    /\ xdata' = data
    /\ xblind' = blind
    /\ xresult' = << >>
    /\ sock' = "open"
    /\ xpc' = "connect"
    /\ UNCHANGED <<sockops, wire, arrived, xret, notTransport>>

\* Line 110: sock.connect(self.target) returns, or raises (refused, timeout,
\* name resolution) and the exception leaves __call__.
XConnect(ok) ==
    /\ xpc = "connect"
    /\ sockops' = Append(sockops, "connect")
    /\ xpc' = IF ok THEN "send" ELSE "raised"
    /\ UNCHANGED <<xdata, xblind, sock, wire, arrived, xresult, xret, notTransport>>

\* Lines 111-117: the payload is made ASCII and sent whole; sendall returns
\* or raises.  An object with no encode method raises AttributeError before
\* anything is sent.
XSend(ok) ==
    /\ xpc = "send"
    /\ IF xdata.kind = "other"
          THEN /\ xpc' = "raised"
               /\ UNCHANGED <<sockops, wire>>
          ELSE LET text == IF xdata.kind = "bytearray"
                              THEN DecodeBytearray(xdata.val) ELSE xdata.val
               IN  /\ sockops' = Append(sockops, "sendall")
                   /\ wire' = IF ok THEN EncodeAsciiXmlCharRef(text) ELSE wire
                   /\ xpc' = IF ~ok THEN "raised"
                             ELSE IF ~xblind THEN "shutdown" ELSE "close"
    /\ UNCHANGED <<xdata, xblind, sock, arrived, xresult, xret, notTransport>>

\* Line 119: sock.shutdown(socket.SHUT_WR) returns or raises.
XShutdown(ok) ==
    /\ xpc = "shutdown"
    /\ sockops' = Append(sockops, "shutdown")
    /\ xpc' = IF ok THEN "recv" ELSE "raised"
    /\ UNCHANGED <<xdata, xblind, sock, wire, arrived, xresult, xret, notTransport>>

\* A slip at line 124: the chunk is put in front of the list.
AddChunk_Prepends(list, chunk) == <<DecodeAsciiReplace(chunk)>> \o list

\* Line 124: result+= [chunk.decode('ascii', 'replace')]
AddChunk(list, chunk) == Append(list, DecodeAsciiReplace(chunk))

\* Lines 121-124: sock.recv returns a chunk, which is decoded and kept.
XRecvChunk(chunk) ==
    /\ xpc = "recv"
    /\ Len(arrived) < MaxChunks
    /\ sockops' = Append(sockops, "recv")
    /\ arrived' = Append(arrived, chunk)
    /\ xresult' = AddChunk(xresult, chunk)
    /\ UNCHANGED <<xpc, xdata, xblind, sock, wire, xret, notTransport>>

\* Lines 121-123: sock.recv returns nothing, the peer has closed: break.
XRecvEnd ==
    /\ xpc = "recv"
    /\ sockops' = Append(sockops, "recv")
    /\ xpc' = "close"
    /\ UNCHANGED <<xdata, xblind, sock, wire, arrived, xresult, xret, notTransport>>

\* Line 121: sock.recv raises (timeout, reset).
XRecvFails ==
    /\ xpc = "recv"
    /\ sockops' = Append(sockops, "recv")
    /\ xpc' = "raised"
    /\ UNCHANGED <<xdata, xblind, sock, wire, arrived, xresult, xret, notTransport>>

\* Lines 125-126: sock.close() and return ''.join(result).
XClose ==
    /\ xpc = "close"
    /\ sockops' = Append(sockops, "close")
    /\ sock' = "closed"
    /\ xret' = Join(xresult)
    /\ xpc' = "returned"
    /\ UNCHANGED <<xdata, xblind, wire, arrived, xresult, notTransport>>

XNext ==
    \/ \E data \in DataValues, blind \in BOOLEAN : XCall(data, blind)
    \/ \E ok \in BOOLEAN : XConnect(ok)
    \/ \E ok \in BOOLEAN : XSend(ok)
    \/ \E ok \in BOOLEAN : XShutdown(ok)
    \/ \E chunk \in Chunks : XRecvChunk(chunk)
    \/ XRecvEnd
    \/ XRecvFails
    \/ XClose

\* ------------------------------------------------------------------------
\* Claims about the transport
\* ------------------------------------------------------------------------

\* C4, as stated: a call that opened a socket has closed it when the call is
\* over, whether it returned or an error went on to the caller.
C4_SocketClosedAtExit ==
    (xpc \in {"returned", "raised"} /\ sock # "none") => sock = "closed"

\* The socket methods a call that awaits a reply uses when k chunks arrive.
ReplyOps(k) ==
    <<"connect", "sendall", "shutdown">> \o [i \in 1..(k + 1) |-> "recv"] \o <<"close">>

\* s is the start of t
IsPrefix(s, t) == Len(s) <= Len(t) /\ \A i \in 1..Len(s) : s[i] = t[i]

\* The payload as it goes on the wire: text made ASCII.
WireOf(data) ==
    EncodeAsciiXmlCharRef(IF data.kind = "bytearray" THEN DecodeBytearray(data.val)
                                                     ELSE data.val)

\* C5: the socket methods are called in the order connect, sendall, then
\* with blind=False shutdown and recv until recv returns nothing, then close;
\* the whole payload is sent; the call returns the decoded chunks joined in
\* arrival order; with blind=True neither shutdown nor recv is called and
\* the call returns the empty string.
C5_ProtocolOrder ==
    /\ xblind => IsPrefix(sockops, <<"connect", "sendall", "close">>)
    /\ ~xblind => \E k \in 0..Len(arrived) : IsPrefix(sockops, ReplyOps(k))
    /\ (xpc = "returned" /\ xblind) =>
          /\ sockops = <<"connect", "sendall", "close">>
          /\ wire = WireOf(xdata)
          /\ xret = << >>
    /\ (xpc = "returned" /\ ~xblind) =>
          /\ sockops = ReplyOps(Len(arrived))
          /\ wire = WireOf(xdata)
          /\ xret = Join([i \in 1..Len(arrived) |-> DecodeAsciiReplace(arrived[i])])

\* C5's case: a call that awaited a reply returned what came in two
\* different chunks.
C5_Witness ==
    /\ xpc = "returned"
    /\ ~xblind
    /\ Len(arrived) = 2
    /\ arrived[1] # arrived[2]

\* ========================================================================
\* Part 3: the command methods of Xymon
\* ========================================================================

\* Python values: None, a str, an int, a list of str.  Every value is a record
\* of the same shape: its type t, its characters v (of an int: the characters
\* of str(n)), its items l.
Digit(n) == CASE n = 0 -> "0" [] n = 1 -> "1" [] n = 2 -> "2" [] n = 3 -> "3" [] n = 4 -> "4"
              [] n = 5 -> "5" [] n = 6 -> "6" [] n = 7 -> "7" [] n = 8 -> "8" [] n = 9 -> "9"

\* str(n) of a natural number
RECURSIVE NatStr(_)
NatStr(n) == IF n < 10 THEN <<Digit(n)>> ELSE NatStr(n \div 10) \o <<Digit(n % 10)>>

\* str(n) of an integer
IntStr(n) == IF n < 0 THEN <<"-">> \o NatStr(0 - n) ELSE NatStr(n)

None == [t |-> "none", v |-> << >>, l |-> << >>]

PyStr(s) == [t |-> "str", v |-> s, l |-> << >>]

PyInt(n) == [t |-> "int", v |-> IntStr(n), l |-> << >>]

PyList(items) == [t |-> "list", v |-> << >>, l |-> items]

\* bool(x)
Truthy(x) ==
    CASE x.t = "none" -> FALSE
      [] x.t = "str" -> x.v # << >>
      [] x.t = "int" -> x.v # <<"0">>
      [] x.t = "list" -> x.l # << >>

\* sep.join(list)
RECURSIVE JoinWith(_, _)
JoinWith(list, sep) ==
    IF list = << >> THEN << >>
    ELSE IF Len(list) = 1 THEN Head(list)
    ELSE Head(list) \o sep \o JoinWith(Tail(list), sep)

\* '%s' % (x,) of None, a str, an int
Fmt(x) ==
    CASE x.t = "none" -> <<"N", "o", "n", "e">>
      [] x.t = "str" -> x.v
      [] x.t = "int" -> x.v

\* joiniterable(obj, sep), lines 491-501: a list is joined, anything else is
\* str(obj).
joiniterable(obj, sep) == IF obj.t = "list" THEN JoinWith(obj.l, sep) ELSE Fmt(obj)

\* Xymon.headline, lines 129-134; ts is what time.strftime('%FT%T') returns.
headline(ts) == <<"M", "e", "s", "s", "a", "g", "e", " ", "g", "e", "n", "e", "r", "a", "t", "e", "d", " ", "b", "y", " ">> \o sender \o <<" ", "a", "t", " ">> \o ts

\* A slip in status: the group modifier is put before the lifetime.
StatusPayload_GroupFirst(hostname, testname, color, text, lifetime, group, ts) ==
    Join(<<<<"s", "t", "a", "t", "u", "s">>,
           IF Truthy(group) THEN <<"/", "g", "r", "o", "u", "p", ":">> \o Fmt(group) ELSE << >>,
           IF Truthy(lifetime) THEN <<"+">> \o Fmt(lifetime) ELSE << >>,
           <<" ">> \o Fmt(hostname) \o <<".">> \o Fmt(testname) \o <<" ">> \o Fmt(color)
               \o <<" ">> \o headline(ts),
           IF Truthy(text) THEN <<"\n">> \o Fmt(text) ELSE << >> >>)

\* Xymon.status, lines 149-164: what is handed to self(...).
StatusPayload(hostname, testname, color, text, lifetime, group, ts) ==
    Join(<<<<"s", "t", "a", "t", "u", "s">>,
           IF Truthy(lifetime) THEN <<"+">> \o Fmt(lifetime) ELSE << >>,
           IF Truthy(group) THEN <<"/", "g", "r", "o", "u", "p", ":">> \o Fmt(group) ELSE << >>,
           <<" ">> \o Fmt(hostname) \o <<".">> \o Fmt(testname) \o <<" ">> \o Fmt(color)
               \o <<" ">> \o headline(ts),
           IF Truthy(text) THEN <<"\n">> \o Fmt(text) ELSE << >> >>)

\* Xymon.notify, lines 167-174
NotifyPayload(hostname, testname, text) ==
    <<"n", "o", "t", "i", "f", "y", " ">> \o Fmt(hostname) \o <<".">> \o Fmt(testname) \o <<" ">> \o Fmt(text)

\* Xymon.data, lines 177-184
DataPayload(hostname, dataname, text) ==
    <<"d", "a", "t", "a", " ">> \o Fmt(hostname) \o <<".">> \o Fmt(dataname) \o <<"\n">> \o Fmt(text)

\* Xymon.disable, lines 187-202
DisablePayload(hostname, testname, duration, text) ==
    <<"d", "i", "s", "a", "b", "l", "e", " ">> \o Fmt(hostname) \o <<".">> \o Fmt(testname) \o <<" ">> \o Fmt(duration)
        \o <<" ">> \o Fmt(text)

\* Xymon.enable, lines 205-213
EnablePayload(hostname, testname) ==
    Fmt(hostname) \o <<".">> \o Fmt(testname)

\* Xymon.query, lines 216-225
QueryPayload(hostname, testname) ==
    <<"q", "u", "e", "r", "y", " ">> \o Fmt(hostname) \o <<".">> \o Fmt(testname)

\* Xymon.config, lines 228-231
ConfigPayload(filename) == <<"c", "o", "n", "f", "i", "g", " ">> \o Fmt(filename)

\* Xymon.drop, lines 234-246
DropPayload(hostname, testname) ==
    IF Truthy(testname)
       THEN <<"d", "r", "o", "p", " ">> \o Fmt(hostname)
       ELSE <<"d", "r", "o", "p", " ">> \o Fmt(hostname) \o <<" ">> \o Fmt(testname)

\* Xymon.rename, lines 249-258
RenamePayload(old, new, hostname) ==
    IF Truthy(hostname)
       THEN <<"r", "e", "n", "a", "m", "e", " ">> \o Fmt(hostname) \o <<" ">> \o Fmt(old) \o <<" ">> \o Fmt(new)
       ELSE <<"r", "e", "n", "a", "m", "e", " ">> \o Fmt(old) \o <<" ">> \o Fmt(new)

\* Xymon.xymondlog, lines 261-264
XymondlogPayload(hostname, testname) ==
    <<"x", "y", "m", "o", "n", "d", "l", "o", "g", " ">> \o Fmt(hostname) \o <<".">> \o Fmt(testname)

\* Xymon.xymondxlog, lines 267-270
XymondxlogPayload(hostname, testname) ==
    <<"x", "y", "m", "o", "n", "d", "x", "l", "o", "g", " ">> \o Fmt(hostname) \o <<".">> \o Fmt(testname)

\* Xymon.xymondboard, lines 281-299: the query sent.
XymondboardPayload(criteria, fields) ==
    JoinWith(<<<<"x", "y", "m", "o", "n", "d", "b", "o", "a", "r", "d">>>>
             \o (IF Truthy(criteria) THEN <<joiniterable(criteria, <<" ">>)>> ELSE << >>)
             \o (IF Truthy(fields)
                    THEN <<<<"f", "i", "e", "l", "d", "s", "=">> \o joiniterable(fields, <<",">>)>> ELSE << >>),
             <<" ">>)

\* Xymon.xymondxboard, lines 309-315
XymondxboardPayload(criteria, fields) ==
    <<"x", "y", "m", "o", "n", "d", "x", "b", "o", "a", "r", "d", " ">> \o Fmt(criteria) \o <<" ">> \o Fmt(fields)

\* Xymon.hostinfo, lines 318-328: the query sent.
HostinfoPayload(criteria) == <<"h", "o", "s", "t", "i", "n", "f", "o", " ">> \o Fmt(criteria)

\* Xymon.download, lines 331-332
DownloadPayload(filename) == <<"d", "o", "w", "n", "l", "o", "a", "d", " ">> \o Fmt(filename)

\* Xymon.ping, lines 341-346
PingPayload == <<"p", "i", "n", "g">>

\* Xymon.ghostlist, line 364: the query sent.
GhostlistPayload == <<"g", "h", "o", "s", "t", "l", "i", "s", "t">>

\* Xymon.schedule, lines 376-390
SchedulePayload(timestamp, command) ==
    IF Truthy(timestamp) /\ Truthy(command)
       THEN <<"s", "c", "h", "e", "d", "u", "l", "e", " ">> \o Fmt(timestamp) \o <<" ">> \o Fmt(command)
       ELSE <<"s", "c", "h", "e", "d", "u", "l", "e">>

\* Xymon.notes, lines 393-394
NotesPayload(filename) == <<"n", "o", "t", "e", "s", " ">> \o Fmt(filename)

\* Xymon.usermsg, lines 397-398
UsermsgPayload(identifier) == <<"u", "s", "e", "r", "m", "s", "g", " ">> \o Fmt(identifier)

\* Xymon.modify, lines 401-410
ModifyPayload(hostname, testname, color, source, cause) ==
    <<"m", "o", "d", "i", "f", "y", " ">> \o Fmt(hostname) \o <<".">> \o Fmt(testname) \o <<" ">> \o Fmt(color)
        \o <<" ">> \o Fmt(source) \o <<" ">> \o Fmt(cause)

\* The arguments the model calls the commands with.
Hostnames == {PyStr(<<"h">>)}

Testnames == {PyStr(<<"t">>), PyStr(<<"*">>)}

ColorNames == {PyStr(<<"r", "e", "d">>), PyStr(<<"g", "r", "e", "e", "n">>)}

Texts == {PyStr(<< >>), PyStr(<<"x">>), PyStr(<<"x", " ", "y">>)}

Lifetimes == {None, PyInt(0), PyInt(30), PyStr(<<"5", "m">>)}

Groups == {None, PyStr(<< >>), PyStr(<<"g">>)}

Durations == {PyInt(-1), PyStr(<<"2", "h">>)}

Filenames == {PyStr(<<"f">>)}

Criterias == {None, PyStr(<<"c", "o", "l", "o", "r", "=", "r", "e", "d">>), PyList(<<<<"a", "=", "1">>, <<"b", "=", "2">>>>)}

Fields == {None, PyStr(<<"h", "o", "s", "t", "n", "a", "m", "e">>), PyList(<<<<"h", "o", "s", "t", "n", "a", "m", "e">>, <<"t", "e", "s", "t", "n", "a", "m", "e">>>>)}

ScalarCriterias == {None, PyStr(<<"c", "o", "l", "o", "r", "=", "r", "e", "d">>)}

Timestamps == {None, PyInt(0), PyInt(17)}

Commands == {None, PyStr(<<"p", "i", "n", "g">>)}

Clock == {<<"T", "1">>, <<"T", "2">>}

Senders == {<<"m", "e">>}

EInit ==
    /\ sender \in Senders
    /\ ecmd = "none"
    /\ eargs = << >>
    /\ payload = << >>

\* Command method cmd is called with args: it hands its payload to self(...),
\* the transport, and nothing of the client changes.
Called(cmd, args) ==
    /\ ecmd' = cmd
    /\ eargs' = args
    /\ UNCHANGED <<sender, notEncode>>

status(hostname, testname, color, text, lifetime, group, ts) ==
    /\ payload' = StatusPayload(hostname, testname, color, text, lifetime, group, ts)
    /\ Called("status", <<hostname, testname, color, text, lifetime, group, PyStr(ts)>>)

notify(hostname, testname, text) ==
    /\ payload' = NotifyPayload(hostname, testname, text)
    /\ Called("notify", <<hostname, testname, text>>)

data(hostname, dataname, text) ==
    /\ payload' = DataPayload(hostname, dataname, text)
    /\ Called("data", <<hostname, dataname, text>>)

disable(hostname, testname, duration, text) ==
    /\ payload' = DisablePayload(hostname, testname, duration, text)
    /\ Called("disable", <<hostname, testname, duration, text>>)

enable(hostname, testname) ==
    /\ payload' = EnablePayload(hostname, testname)
    /\ Called("enable", <<hostname, testname>>)

query(hostname, testname) ==
    /\ payload' = QueryPayload(hostname, testname)
    /\ Called("query", <<hostname, testname>>)

config(filename) ==
    /\ payload' = ConfigPayload(filename)
    /\ Called("config", <<filename>>)

drop(hostname, testname) ==
    /\ payload' = DropPayload(hostname, testname)
    /\ Called("drop", <<hostname, testname>>)

rename(old, new, hostname) ==
    /\ payload' = RenamePayload(old, new, hostname)
    /\ Called("rename", <<old, new, hostname>>)

xymondlog(hostname, testname) ==
    /\ payload' = XymondlogPayload(hostname, testname)
    /\ Called("xymondlog", <<hostname, testname>>)

xymondxlog(hostname, testname) ==
    /\ payload' = XymondxlogPayload(hostname, testname)
    /\ Called("xymondxlog", <<hostname, testname>>)

xymondboard(criteria, fields) ==
    /\ payload' = XymondboardPayload(criteria, fields)
    /\ Called("xymondboard", <<criteria, fields>>)

xymondxboard(criteria, fields) ==
    /\ payload' = XymondxboardPayload(criteria, fields)
    /\ Called("xymondxboard", <<criteria, fields>>)

hostinfo(criteria) ==
    /\ payload' = HostinfoPayload(criteria)
    /\ Called("hostinfo", <<criteria>>)

download(filename) ==
    /\ payload' = DownloadPayload(filename)
    /\ Called("download", <<filename>>)

ping ==
    /\ payload' = PingPayload
    /\ Called("ping", << >>)

ghostlist ==
    /\ payload' = GhostlistPayload
    /\ Called("ghostlist", << >>)

schedule(timestamp, command) ==
    /\ payload' = SchedulePayload(timestamp, command)
    /\ Called("schedule", <<timestamp, command>>)

notes(filename) ==
    /\ payload' = NotesPayload(filename)
    /\ Called("notes", <<filename>>)

usermsg(identifier) ==
    /\ payload' = UsermsgPayload(identifier)
    /\ Called("usermsg", <<identifier>>)

modify(hostname, testname, color, source, cause) ==
    /\ payload' = ModifyPayload(hostname, testname, color, source, cause)
    /\ Called("modify", <<hostname, testname, color, source, cause>>)

ENext ==
    \/ \E h \in Hostnames, t \in Testnames, c \in ColorNames, x \in Texts,
          l \in Lifetimes, g \in Groups, ts \in Clock : status(h, t, c, x, l, g, ts)
    \/ \E h \in Hostnames, t \in Testnames, x \in Texts : notify(h, t, x)
    \/ \E h \in Hostnames, t \in Testnames, x \in Texts : data(h, t, x)
    \/ \E h \in Hostnames, t \in Testnames, d \in Durations, x \in Texts : disable(h, t, d, x)
    \/ \E h \in Hostnames, t \in Testnames : enable(h, t)
    \/ \E h \in Hostnames, t \in Testnames : query(h, t)
    \/ \E f \in Filenames : config(f)
    \/ \E h \in Hostnames, t \in Testnames \cup {None, PyStr(<< >>)} : drop(h, t)
    \/ \E o \in Testnames, n \in Testnames, h \in Hostnames \cup {None} : rename(o, n, h)
    \/ \E h \in Hostnames, t \in Testnames : xymondlog(h, t)
    \/ \E h \in Hostnames, t \in Testnames : xymondxlog(h, t)
    \/ \E c \in Criterias, f \in Fields : xymondboard(c, f)
    \/ \E c \in ScalarCriterias, f \in {None, PyStr(<<"h", "o", "s", "t", "n", "a", "m", "e">>)} : xymondxboard(c, f)
    \/ \E c \in ScalarCriterias : hostinfo(c)
    \/ \E f \in Filenames : download(f)
    \/ ping
    \/ ghostlist
    \/ \E ts \in Timestamps, c \in Commands : schedule(ts, c)
    \/ \E f \in Filenames : notes(f)
    \/ \E i \in Filenames : usermsg(i)
    \/ \E h \in Hostnames, t \in Testnames, c \in ColorNames, s \in Filenames,
          x \in Texts : modify(h, t, c, s, x)

\* The commands of the client that transmit.
TransmittingCommands ==
    {"status", "notify", "data", "disable", "enable", "query",
     "config", "drop", "rename", "xymondlog", "xymondxlog", "xymondboard",
     "xymondxboard", "hostinfo", "download", "ping", "ghostlist", "schedule",
     "notes", "usermsg", "modify"}

\* The verb of each command in the Xymon protocol: the name of its method.
Verb ==
    [c \in TransmittingCommands |->
        CASE c = "status" -> <<"s", "t", "a", "t", "u", "s">>
          [] c = "notify" -> <<"n", "o", "t", "i", "f", "y">>
          [] c = "data" -> <<"d", "a", "t", "a">>
          [] c = "disable" -> <<"d", "i", "s", "a", "b", "l", "e">>
          [] c = "enable" -> <<"e", "n", "a", "b", "l", "e">>
          [] c = "query" -> <<"q", "u", "e", "r", "y">>
          [] c = "config" -> <<"c", "o", "n", "f", "i", "g">>
          [] c = "drop" -> <<"d", "r", "o", "p">>
          [] c = "rename" -> <<"r", "e", "n", "a", "m", "e">>
          [] c = "xymondlog" -> <<"x", "y", "m", "o", "n", "d", "l", "o", "g">>
          [] c = "xymondxlog" -> <<"x", "y", "m", "o", "n", "d", "x", "l", "o", "g">>
          [] c = "xymondboard" -> <<"x", "y", "m", "o", "n", "d", "b", "o", "a", "r", "d">>
          [] c = "xymondxboard" -> <<"x", "y", "m", "o", "n", "d", "x", "b", "o", "a", "r", "d">>
          [] c = "hostinfo" -> <<"h", "o", "s", "t", "i", "n", "f", "o">>
          [] c = "download" -> <<"d", "o", "w", "n", "l", "o", "a", "d">>
          [] c = "ping" -> <<"p", "i", "n", "g">>
          [] c = "ghostlist" -> <<"g", "h", "o", "s", "t", "l", "i", "s", "t">>
          [] c = "schedule" -> <<"s", "c", "h", "e", "d", "u", "l", "e">>
          [] c = "notes" -> <<"n", "o", "t", "e", "s">>
          [] c = "usermsg" -> <<"u", "s", "e", "r", "m", "s", "g">>
          [] c = "modify" -> <<"m", "o", "d", "i", "f", "y">>]

\* ------------------------------------------------------------------------
\* Claims about the command methods
\* ------------------------------------------------------------------------

\* sub occurs in s from position p on
OccursAt(sub, s, p) ==
    /\ p + Len(sub) - 1 <= Len(s)
    /\ \A i \in 1..Len(sub) : s[p + i - 1] = sub[i]

\* The first space-separated token of s
FirstToken(s) ==
    LET spaces == {i \in 1..Len(s) : s[i] = " "}
        stop == IF spaces = {} THEN Len(s) + 1
                ELSE CHOOSE i \in spaces : \A j \in spaces : i <= j
    IN  SubSeq(s, 1, stop - 1)

\* C6, as stated: status sends
\*   status[ +lifetime][ /group:group] host.test color headline[\ntext]
\* with the lifetime modifier iff lifetime is set, then the group modifier iff
\* group is set, each after a space; the headline always; the body after a
\* newline iff text is not empty.  "Set" is read as the code tests it: truthy.
C6_StatusPayloadSpaced ==
    ecmd = "status" =>
        LET hostname == eargs[1]
            testname == eargs[2]
            color == eargs[3]
            text == eargs[4]
            lifetime == eargs[5]
            group == eargs[6]
            ts == eargs[7]
        IN  payload =
              <<"s", "t", "a", "t", "u", "s">>
              \o (IF lifetime \notin {None, PyInt(0), PyStr(<< >>)}
                     THEN <<" ", "+">> \o Fmt(lifetime) ELSE << >>)
              \o (IF group \notin {None, PyStr(<< >>)}
                     THEN <<" ", "/", "g", "r", "o", "u", "p", ":">> \o Fmt(group) ELSE << >>)
              \o <<" ">> \o Fmt(hostname) \o <<".">> \o Fmt(testname)
              \o <<" ">> \o Fmt(color)
              \o <<" ", "M", "e", "s", "s", "a", "g", "e", " ", "g", "e", "n", "e", "r", "a", "t", "e", "d", " ", "b", "y", " ">> \o sender \o <<" ", "a", "t", " ">> \o Fmt(ts)
              \o (IF text.v # << >> THEN <<"\n">> \o text.v ELSE << >>)

\* C6, amended: status sends
\*   status[+lifetime][/group:group] host.test color headline[\ntext]
\* where the modifiers follow the verb with no space between: the lifetime
\* modifier is there iff lifetime is truthy (not None, 0 or empty) and comes
\* before the group modifier, which is there iff group is truthy (not None or
\* empty); both come before host.test; the headline
\* "Message generated by <sender> at <timestamp>" always follows the color,
\* also when text is empty; the body follows a newline iff text is not empty.
C6_StatusPayload ==
    ecmd = "status" =>
        LET hostname == eargs[1]
            testname == eargs[2]
            color == eargs[3]
            text == eargs[4]
            lifetime == eargs[5]
            group == eargs[6]
            ts == eargs[7]
        IN  payload =
              <<"s", "t", "a", "t", "u", "s">>
              \o (IF lifetime \notin {None, PyInt(0), PyStr(<< >>)}
                     THEN <<"+">> \o Fmt(lifetime) ELSE << >>)
              \o (IF group \notin {None, PyStr(<< >>)}
                     THEN <<"/", "g", "r", "o", "u", "p", ":">> \o Fmt(group) ELSE << >>)
              \o <<" ">> \o Fmt(hostname) \o <<".">> \o Fmt(testname)
              \o <<" ">> \o Fmt(color)
              \o <<" ", "M", "e", "s", "s", "a", "g", "e", " ", "g", "e", "n", "e", "r", "a", "t", "e", "d", " ", "b", "y", " ">> \o sender \o <<" ", "a", "t", " ">> \o Fmt(ts)
              \o (IF text.v # << >> THEN <<"\n">> \o text.v ELSE << >>)

\* C6's case: status was called with a lifetime, a group and no text.
C6_Witness ==
    /\ ecmd = "status"
    /\ eargs[5] = PyInt(30)
    /\ eargs[6] = PyStr(<<"g">>)
    /\ eargs[4] = PyStr(<< >>)
    /\ OccursAt(<<"s", "t", "a", "t", "u", "s", "+", "3", "0", "/", "g", "r", "o", "u", "p", ":", "g", " ", "h", ".">>, payload, 1)

\* The commands whose target is written host.test
DottedCommands ==
    {"status", "notify", "data", "disable", "enable", "query", "xymondlog", "xymondxlog",
     "modify"}

\* C7, as stated: for every command that transmits, the first space-separated
\* token of the payload starts with the command's verb, and where the command
\* takes a host and a test, host.test comes after the verb.
C7_VerbFirst ==
    ecmd \in TransmittingCommands =>
        /\ IsPrefix(Verb[ecmd], FirstToken(payload))
        /\ ecmd \in DottedCommands =>
              \E p \in (Len(Verb[ecmd]) + 1)..Len(payload) :
                  OccursAt(Fmt(eargs[1]) \o <<".">> \o Fmt(eargs[2]), payload, p)

\* C12: drop(hostname, testname) sends `drop hostname testname` when testname
\* is truthy and `drop hostname` otherwise (testname None or empty), so the
\* payload never holds the text of an absent testname.
C12_DropForms ==
    ecmd = "drop" =>
        payload = IF Truthy(eargs[2])
                     THEN <<"d", "r", "o", "p", " ">> \o Fmt(eargs[1]) \o <<" ">> \o Fmt(eargs[2])
                     ELSE <<"d", "r", "o", "p", " ">> \o Fmt(eargs[1])

\* ========================================================================
\* Part 4: Helper, the message buffer
\* ========================================================================

\* The most operations done on one helper.
MaxOps == 2

\* dict.update: a.update(b)
DictUpdate(a, b) ==
    [k \in (DOMAIN a) \cup (DOMAIN b) |-> IF k \in DOMAIN b THEN b[k] ELSE a[k]]

\* kwargs.get('text', '')
GetText(kwargs) == IF "text" \in DOMAIN kwargs THEN kwargs["text"] ELSE << >>

\* The float of each Color that r_color can find (helpers.py, 166-169).
ColorFloat == [c \in {"clear", "green", "yellow", "red"} |->
                 CASE c = "clear" -> 0 [] c = "green" -> 1 [] c = "yellow" -> 2 [] c = "red" -> 3]

\* The characters of each color's name.
ColorChars == [c \in {"clear", "green", "yellow", "red"} |->
                 CASE c = "clear" -> <<"c", "l", "e", "a", "r">> [] c = "green" -> <<"g", "r", "e", "e", "n">>
                   [] c = "yellow" -> <<"y", "e", "l", "l", "o", "w">> [] c = "red" -> <<"r", "e", "d">>]

\* The characters of the model's texts that are no word characters (\W).
NonWordChars == {"&", " ", "\n"}

\* \b after the position p - 1: the end of the text, or a character that is
\* no word character (the color names end with a letter).
WordBoundary(text, p) == p > Len(text) \/ text[p] \in NonWordChars

\* The alternatives of r_color, in the order of the pattern (line 50).
Alternatives == <<"green", "yellow", "red", "clear">>

\* The color r_color matches at position p of text, or "" when it matches
\* none: & then the first alternative found there, then \b.
MatchAt(text, p) ==
    LET hits == {i \in 1..Len(Alternatives) :
                    /\ p + Len(ColorChars[Alternatives[i]]) <= Len(text)
                    /\ text[p] = "&"
                    /\ SubSeq(text, p + 1, p + Len(ColorChars[Alternatives[i]]))
                          = ColorChars[Alternatives[i]]}
        first == CHOOSE i \in hits : \A j \in hits : i <= j
    IN  IF hits # {} /\ WordBoundary(text, p + 1 + Len(ColorChars[Alternatives[first]]))
           THEN Alternatives[first]
           ELSE ""

\* r_color.findall(text) from position p on: the matches from left to right,
\* the search going on after each match.
RECURSIVE FindAll(_, _)
FindAll(text, p) ==
    IF p > Len(text) THEN << >>
    ELSE IF MatchAt(text, p) # ""
         THEN <<MatchAt(text, p)>> \o FindAll(text, p + 1 + Len(ColorChars[MatchAt(text, p)]))
    ELSE FindAll(text, p + 1)

\* Helper.get_colors(text, default), lines 84-90, with a default given.
get_colors(text, default) ==
    IF FindAll(text, 1) = << >> THEN <<default>> ELSE FindAll(text, 1)

\* A slip at line 120: the first color found is taken.
PyMax_First(colors) == colors[1]

\* max(colors), line 120: the first of the greatest.
PyMax(colors) ==
    LET best == {i \in 1..Len(colors) :
                    \A j \in 1..Len(colors) : ColorFloat[colors[j]] <= ColorFloat[colors[i]]}
    IN  colors[CHOOSE i \in best : \A j \in best : i <= j]

\* The attributes of a Helper found before __getattr__ is asked: those of
\* the instance (lines 55-61) and those of the class.
HelperInstanceAttrs == {"defaults", "data", "xymon"}

HelperClassAttrs == {"status", "get_colors", "color", "r_color"}

\* The attributes of the underlying Xymon.
XymonAttrs ==
    TransmittingCommands \cup {"client", "clientlog", "pullclient", "headline", "sender", "target"}

\* Helper.__getattr__, lines 149-158: what it returns for a name.
Scope(n) ==
    IF n \in {"rename", "client", "clientlot", "modify"} THEN "_host"
    ELSE IF n \in {"disable", "enable", "query", "drop", "xymondlog", "xymondxlog", "modify"}
         THEN "_host_test"
    ELSE IF n \in {"notify", "data"} THEN "_host_test_text"
    ELSE "getattr"

\* The texts appended to the buffer and given as message or text.
Fragments == {<<"&", "r", "e", "d">>, <<"&", "g", "r", "e", "e", "n">>, <<"&", "y", "e", "l", "l", "o", "w">>, <<"&", "c", "l", "e", "a", "r">>, <<"x">>, <<" ">>}

\* The keyword arguments given to status and to the other commands.
KwargsSet ==
    {EmptyDict,
     [k \in {"text"} |-> <<"&", "r", "e", "d">>],
     [k \in {"color"} |-> "green"],
     [k \in {"testname"} |-> <<"t", "2">>],
     [k \in {"color", "text"} |-> IF k = "color" THEN "clear" ELSE <<"&", "y", "e", "l", "l", "o", "w">>]}

\* The names asked of the helper and called.
AttrNames ==
    {"rename", "client", "clientlog", "clientlot", "modify", "disable", "enable", "query",
     "drop", "xymondlog", "xymondxlog", "notify", "data", "ping"}

\* Helper.__init__, lines 54-61: hostname and testname are kept when truthy.
HelperInit ==
    /\ hdefaults \in {EmptyDict,
                      [k \in {"hostname"} |-> <<"h">>],
                      [k \in {"hostname", "testname"} |->
                          IF k = "hostname" THEN <<"h">> ELSE <<"t">>]}
    /\ hdata = << >>
    /\ hop = [op |-> "__init__", message |-> << >>, kwargs |-> EmptyDict, outcome |-> "returned"]
    /\ hcall = [name |-> "", params |-> EmptyDict]
    /\ hncalls = 0
    /\ hnops = 0

\* An operation on the helper is over: it is kept in hop.
Done(op, message, kwargs, outcome) ==
    /\ hop' = [op |-> op, message |-> message, kwargs |-> kwargs, outcome |-> outcome]
    /\ hnops' = hnops + 1
    /\ UNCHANGED <<hdefaults, notHelper>>

\* A call is made on Helper.xymon: it is kept in hcall.
CallXymon(n, params) ==
    /\ hcall' = [name |-> n, params |-> params]
    /\ hncalls' = hncalls + 1

\* Helper.__iadd__, lines 64-66
IAdd(other) ==
    /\ hnops < MaxOps
    /\ hdata' = hdata \o other
    /\ UNCHANGED <<hcall, hncalls>>
    /\ Done("__iadd__", other, EmptyDict, "returned")

\* The keyword arguments Helper.status calls Xymon.status with, lines 106-120.
StatusParams(message, kwargs) ==
    LET text == hdata \o message \o GetText(kwargs)
        params == DictUpdate(DictUpdate(hdefaults, kwargs), [k \in {"text"} |-> text])
    IN  IF "color" \notin DOMAIN kwargs
           THEN DictUpdate(params, [k \in {"color"} |-> PyMax(get_colors(text, "clear"))])
           ELSE params

\* Helper.status, lines 93-122
HelperStatus(message, kwargs) ==
    /\ hnops < MaxOps
    /\ hdata' = << >>
    /\ CallXymon("status", StatusParams(message, kwargs))
    /\ Done("status", message, kwargs, "called")

\* The keyword arguments _host_test_text calls the command with, lines 137-144.
TextParams(message, kwargs) ==
    DictUpdate(DictUpdate(hdefaults, kwargs),
               [k \in {"text"} |-> hdata \o message \o GetText(kwargs)])

\* helper.<n>(message, **kwargs) for a name n other than status: the
\* attribute is looked up, on the instance first and through __getattr__
\* (lines 125-158) when it has none, and what is found is called.
HelperAttrCall(n, message, kwargs) ==
    /\ hnops < MaxOps
    /\ IF n \in HelperInstanceAttrs
          THEN \* helper.data is the buffer, a str: calling it raises TypeError
               /\ UNCHANGED <<hdata, hcall, hncalls>>
               /\ Done(n, message, kwargs, "TypeError")
       ELSE IF Scope(n) = "_host" /\ "hostname" \notin DOMAIN hdefaults
          THEN \* self.defaults['hostname'], line 127
               /\ UNCHANGED <<hdata, hcall, hncalls>>
               /\ Done(n, message, kwargs, "KeyError")
       ELSE IF n \notin XymonAttrs
          THEN \* getattr(self.xymon, name)
               /\ UNCHANGED <<hdata, hcall, hncalls>>
               /\ Done(n, message, kwargs, "AttributeError")
       ELSE IF Scope(n) = "_host"
          THEN /\ CallXymon(n, DictUpdate([k \in {"hostname"} |-> hdefaults["hostname"]],
                                          kwargs))
               /\ UNCHANGED hdata
               /\ Done(n, message, kwargs, "called")
       ELSE IF Scope(n) = "_host_test"
          THEN /\ CallXymon(n, DictUpdate(hdefaults, kwargs))
               /\ UNCHANGED hdata
               /\ Done(n, message, kwargs, "called")
       ELSE IF Scope(n) = "_host_test_text"
          THEN /\ CallXymon(n, TextParams(message, kwargs))
               /\ hdata' = << >>
               /\ Done(n, message, kwargs, "called")
       ELSE \* the attribute of the client itself, called as the caller calls it
               /\ CallXymon(n, kwargs)
               /\ UNCHANGED hdata
               /\ Done(n, message, kwargs, "called")

HNext ==
    \/ \E other \in Fragments : IAdd(other)
    \/ \E message \in Fragments \cup {<< >>}, kwargs \in KwargsSet : HelperStatus(message, kwargs)
    \/ \E n \in AttrNames, message \in {<< >>, <<"x">>}, kwargs \in KwargsSet :
          HelperAttrCall(n, IF Scope(n) = "_host_test_text" THEN message ELSE << >>, kwargs)

\* ------------------------------------------------------------------------
\* Claims about the helper
\* ------------------------------------------------------------------------

\* C8, as stated: an append only concatenates onto the buffer and makes no
\* call on the client; status, notify and data each make exactly one call on
\* the client, of the command of that name, with text = buffer + message +
\* overrides.text, and leave the buffer empty.
C8_AppendThenFlush ==
    [][hnops' = hnops + 1 =>
          /\ hop'.op = "__iadd__" =>
                /\ hdata' = hdata \o hop'.message
                /\ hncalls' = hncalls
                /\ hcall' = hcall
          /\ hop'.op \in {"status", "notify", "data"} =>
                /\ hncalls' = hncalls + 1
                /\ hcall'.name = hop'.op
                /\ hcall'.params["text"] = hdata \o hop'.message \o GetText(hop'.kwargs)
                /\ hdata' = << >>]_vars

\* The order of the severities, the least severe first.
Severities == <<"clear", "green", "yellow", "red">>

Rank(c) == CHOOSE i \in 1..Len(Severities) : Severities[i] = c

\* The marker &c occurs in text at position p, a word boundary after it.
MarkerOccurs(text, p, c) ==
    LET marker == <<"&">> \o ColorChars[c]
        after == p + Len(marker)
    IN  /\ OccursAt(marker, text, p)
        /\ after > Len(text) \/ text[after] \in {"&", " ", "\n"}

\* The most severe marker that occurs in text, clear when none does.
MostSevere(text) ==
    LET found == {c \in {"clear", "green", "yellow", "red"} :
                     \E p \in 1..Len(text) : MarkerOccurs(text, p, c)}
    IN  IF found = {} THEN "clear"
        ELSE CHOOSE c \in found : \A other \in found : Rank(other) <= Rank(c)

\* C9: Helper.status called without a severity override passes as severity
\* the most severe of the markers &red, &yellow, &green, &clear that occur in
\* buffer + message + overrides.text, under clear < green < yellow < red and
\* whatever their order in the text, and clear when none occurs; with a
\* severity override it passes that severity unchanged.
C9_MostSevereMarker ==
    [][(hnops' = hnops + 1 /\ hop'.op = "status") =>
          /\ hcall'.name = "status"
          /\ hcall'.params["color"] =
                IF "color" \in DOMAIN hop'.kwargs
                   THEN hop'.kwargs["color"]
                   ELSE MostSevere(hdata \o hop'.message \o GetText(hop'.kwargs))]_vars

\* C9's case: status was called with no severity override on a text where a
\* less severe marker comes before the most severe one.
C9_Witness ==
    /\ hop.op = "status"
    /\ "color" \notin DOMAIN hop.kwargs
    /\ hcall.params["text"] = <<"&", "g", "r", "e", "e", "n", "&", "r", "e", "d">>
    /\ hcall.params["color"] = "red"

\* C10, as stated: rename, client, clientlog (and modify) are called on the
\* client with only the default hostname merged into the caller's keyword
\* arguments; disable, enable, query, drop, xymondlog, xymondxlog (and modify)
\* with all the defaults merged in; the caller's keyword arguments override
\* the defaults; a name outside the scoped sets is called as the caller calls
\* it.  modify, which the claim puts in both sets, may be called either way.
C10_ScopedPassthrough ==
    LET n == hop.op
        hostOnly == DictUpdate([k \in (DOMAIN hdefaults) \cap {"hostname"} |-> hdefaults[k]],
                               hop.kwargs)
        full == DictUpdate(hdefaults, hop.kwargs)
    IN  /\ n \in {"rename", "client", "clientlog"} /\ hop.outcome # "KeyError" =>
              hop.outcome = "called" /\ hcall.name = n /\ hcall.params = hostOnly
        /\ n \in {"disable", "enable", "query", "drop", "xymondlog", "xymondxlog"} =>
              hop.outcome = "called" /\ hcall.name = n /\ hcall.params = full
        /\ n = "modify" /\ hop.outcome # "KeyError" =>
              hop.outcome = "called" /\ hcall.name = n /\ hcall.params \in {hostOnly, full}
        /\ n = "ping" =>
              hop.outcome = "called" /\ hcall.name = n /\ hcall.params = hop.kwargs

\* ------------------------------------------------------------------------
\* Part 5: Xymon.ghostlist, the decoder of the reply (xymon.py 353-373)
\* ------------------------------------------------------------------------

MaxLines == 3

\* str.splitlines: the characters that end a line.  The reply was decoded
\* as ASCII (line 124), so only the ASCII ones can occur; "\r\n" ends one line.
LineBoundaries == {"\n", "\r", "\f", "0x0B", "0x1C", "0x1D", "0x1E"}

RECURSIVE SplitLinesFrom(_, _, _)
SplitLinesFrom(s, i, cur) ==
    IF i > Len(s)
       THEN IF cur = << >> THEN << >> ELSE <<cur>>
       ELSE IF s[i] = "\r" /\ i < Len(s) /\ s[i + 1] = "\n"
               THEN <<cur>> \o SplitLinesFrom(s, i + 2, << >>)
               ELSE IF s[i] \in LineBoundaries
                       THEN <<cur>> \o SplitLinesFrom(s, i + 1, << >>)
                       ELSE SplitLinesFrom(s, i + 1, Append(cur, s[i]))

\* self('ghostlist').splitlines(), line 364
SplitLines(s) == SplitLinesFrom(s, 1, << >>)

\* line.split(sep, maxsplit), line 366: at most maxsplit cuts, from the left.
RECURSIVE Split(_, _, _)
Split(s, sep, maxsplit) ==
    IF maxsplit = 0 \/ ~ \E i \in 1..Len(s) : s[i] = sep
       THEN <<s>>
       ELSE LET i == CHOOSE k \in 1..Len(s) :
                         s[k] = sep /\ \A j \in 1..(k - 1) : s[j] # sep
            IN  <<SubSeq(s, 1, i - 1)>> \o Split(SubSeq(s, i + 1, Len(s)), sep, maxsplit - 1)

\* int(timestamp), line 47: white space around the number is stripped, a sign
\* may lead, decimal digits follow.
Whitespace == {" ", "\t", "\n", "\r", "\f", "0x0B"}

Digits == {"0", "1", "2", "3", "4", "5", "6", "7", "8", "9"}

RECURSIVE LStrip(_)
LStrip(s) == IF s # << >> /\ Head(s) \in Whitespace THEN LStrip(Tail(s)) ELSE s

RECURSIVE RStrip(_)
RStrip(s) ==
    IF s # << >> /\ s[Len(s)] \in Whitespace THEN RStrip(SubSeq(s, 1, Len(s) - 1)) ELSE s

Strip(s) == RStrip(LStrip(s))

Unsigned(s) == IF s # << >> /\ Head(s) \in {"+", "-"} THEN Tail(s) ELSE s

\* TRUE iff int(s) returns; it raises ValueError otherwise.
IntParses(s) ==
    LET body == Unsigned(Strip(s))
    IN  body # << >> /\ \A i \in 1..Len(body) : body[i] \in Digits

DigitValue(c) == CHOOSE n \in 0..9 : Digit(n) = c

RECURSIVE NatValue(_)
NatValue(ds) ==
    IF ds = << >> THEN 0 ELSE 10 * NatValue(SubSeq(ds, 1, Len(ds) - 1)) + DigitValue(ds[Len(ds)])

\* the value of int(s) when it returns
IntValue(s) ==
    LET t == Strip(s)
    IN  IF Head(t) = "-" THEN 0 - NatValue(Unsigned(t)) ELSE NatValue(Unsigned(t))

\* Ghost(*parts), lines 43-47: the exception it raises, "none" if it returns.
\* __new__ takes exactly three arguments besides cls.
GhostRaises(parts) ==
    IF Len(parts) # 3 THEN "TypeError"
    ELSE IF ~ IntParses(parts[3]) THEN "ValueError"
    ELSE "none"

\* Ghost.__new__, lines 43-47
Ghost(hostname, address, timestamp) ==
    [hostname |-> hostname, address |-> address, timestamp |-> IntValue(timestamp)]

\* A loop body that forgets the records it has when a line is malformed.
GhostlistBody_Resets(st, line) ==
    LET parts == Split(line, "|", 2)
    IN  IF GhostRaises(parts) = "none"
           THEN [st EXCEPT !.data = Append(@, Ghost(parts[1], parts[2], parts[3]))]
           ELSE [data |-> << >>, log |-> Append(st.log, line)]

\* The body of the for loop, lines 365-372: the bare except catches whatever
\* Ghost raises, and logger.error is called with the line.
GhostlistBody(st, line) ==
    LET parts == Split(line, "|", 2)
    IN  IF GhostRaises(parts) = "none"
           THEN [st EXCEPT !.data = Append(@, Ghost(parts[1], parts[2], parts[3]))]
           ELSE [st EXCEPT !.log = Append(@, line)]

\* The lines the server's reply is made of in the model.
LineTexts ==
    { <<"h", "|", "a", "|", "7">>,
      <<"h", "|", "a", "|", "-", "1", "2">>,
      <<"g", "|", "b", "|", " ", "8">>,
      <<"B", "A", "D">>,
      << >>,
      <<"h", "|", "a">>,
      <<"h", "|", "a", "|", "7", "|", "7">>,
      <<"h", "|", "a", "|", "x">> }

LineEnds == {<<"\n">>, <<"\r", "\n">>}

\* The replies self('ghostlist') returns in the model: up to MaxLines lines,
\* each followed by a line end, the last one with or without it.
RECURSIVE Terminated(_, _)
Terminated(lines, end) ==
    IF lines = << >> THEN << >> ELSE Head(lines) \o end \o Terminated(Tail(lines), end)

GhostReplies ==
    { Terminated(lines, end) :
          lines \in UNION {[1..n -> LineTexts] : n \in 0..MaxLines}, end \in LineEnds }
    \cup
    { SubSeq(Terminated(lines, <<"\n">>), 1, Len(Terminated(lines, <<"\n">>)) - 1) :
          lines \in UNION {[1..n -> LineTexts] : n \in 1..MaxLines} }

GInit ==
    /\ gpc = "idle"
    /\ greply = << >>
    /\ glines = << >>
    /\ gdata = << >>
    /\ glog = << >>

\* Lines 363-364: data = [], the reply is received and cut into lines.  data
\* is local to the call, so one call is followed from its start to its return.
GhostlistCall ==
    /\ gpc = "idle"
    /\ \E reply \in GhostReplies :
          /\ greply' = reply
          /\ glines' = SplitLines(reply)
    /\ gdata' = << >>
    /\ glog' = << >>
    /\ gpc' = "loop"
    /\ UNCHANGED notGhostlist

\* One iteration of the for loop, lines 364-372.
GhostlistLine ==
    /\ gpc = "loop"
    /\ glines # << >>
    /\ LET st == GhostlistBody([data |-> gdata, log |-> glog], Head(glines))
       IN  /\ gdata' = st.data
           /\ glog' = st.log
    /\ glines' = Tail(glines)
    /\ UNCHANGED <<gpc, greply, notGhostlist>>

\* Line 373: return data
GhostlistReturn ==
    /\ gpc = "loop"
    /\ glines = << >>
    /\ gpc' = "returned"
    /\ UNCHANGED <<greply, glines, gdata, glog, notGhostlist>>

GNext == GhostlistCall \/ GhostlistLine \/ GhostlistReturn

\* ------------------------------------------------------------------------
\* Claims about ghostlist
\* ------------------------------------------------------------------------

\* The places of the `|` in a line, in increasing order.
RECURSIVE PipesFrom(_, _)
PipesFrom(line, i) ==
    IF i > Len(line) THEN << >>
    ELSE IF line[i] = "|" THEN <<i>> \o PipesFrom(line, i + 1)
    ELSE PipesFrom(line, i + 1)

\* A line is well formed when `|` cuts it into exactly three parts and the
\* third part is an integer.
WellFormed(line) ==
    LET p == PipesFrom(line, 1)
    IN  /\ Len(p) = 2
        /\ IntParses(SubSeq(line, p[2] + 1, Len(line)))

RecordOf(line) ==
    LET p == PipesFrom(line, 1)
    IN  [hostname  |-> SubSeq(line, 1, p[1] - 1),
         address   |-> SubSeq(line, p[1] + 1, p[2] - 1),
         timestamp |-> IntValue(SubSeq(line, p[2] + 1, Len(line)))]

RECURSIVE RecordsOf(_)
RecordsOf(lines) ==
    IF lines = << >> THEN << >>
    ELSE IF WellFormed(Head(lines)) THEN <<RecordOf(Head(lines))>> \o RecordsOf(Tail(lines))
    ELSE RecordsOf(Tail(lines))

RECURSIVE MalformedOf(_)
MalformedOf(lines) ==
    IF lines = << >> THEN << >>
    ELSE IF WellFormed(Head(lines)) THEN MalformedOf(Tail(lines))
    ELSE <<Head(lines)>> \o MalformedOf(Tail(lines))

\* The lines of the reply the for loop has visited so far.
Visited ==
    LET lines == SplitLines(greply)
    IN  SubSeq(lines, 1, Len(lines) - Len(glines))

\* C11: for every reply, ghostlist returns normally, and the list it returns
\* holds, in reply order, exactly one record (hostname, address, integer
\* timestamp) for each well-formed line of the reply and none for any other
\* line; each malformed line is logged and skipped.  A malformed line never
\* aborts the call or loses the well-formed lines around it: all along the
\* call, the list holds the records of the well-formed lines visited so far,
\* the log holds the malformed ones, and the lines after them are still to be
\* visited; the call only ever ends by returning.
C11_GhostlistPerLine ==
    /\ gpc \in {"idle", "loop", "returned"}
    /\ gpc # "idle" =>
          /\ Visited \o glines = SplitLines(greply)
          /\ gdata = RecordsOf(Visited)
          /\ glog = MalformedOf(Visited)
    /\ gpc = "returned" =>
          /\ glines = << >>
          /\ gdata = RecordsOf(SplitLines(greply))
          /\ glog = MalformedOf(SplitLines(greply))
          /\ Len(gdata) + Len(glog) = Len(SplitLines(greply))

\* ghostlist has returned for a reply in which a malformed line stands
\* between two well-formed lines.
C11_Witness ==
    /\ gpc = "returned"
    /\ LET lines == SplitLines(greply)
       IN  \E i, j, k \in 1..Len(lines) :
              /\ i < j /\ j < k
              /\ WellFormed(lines[i]) /\ ~ WellFormed(lines[j]) /\ WellFormed(lines[k])
    /\ Len(gdata) >= 2
    /\ Len(glog) >= 1


\* The dispatcher before any call, for the specifications of the other parts.
DispatchIdle ==
    /\ children = 1
    /\ name = "ping"
    /\ fate = [c \in 1..1 |-> "raise"]
    /\ pc = [d \in Dispatchers |-> "idle"]
    /\ idx = [d \in Dispatchers |-> 0]
    /\ result = [d \in Dispatchers |-> EmptyDict]
    /\ invoked = [d \in Dispatchers |-> << >>]
    /\ errlog = [d \in Dispatchers |-> {}]
    /\ tasks = [d \in Dispatchers |-> [c \in 1..1 |-> "none"]]
    /\ pool = [d \in Dispatchers |-> "none"]

\* The helper before it is built, for the specifications of the other parts.
HelperIdle ==
    /\ hdefaults = EmptyDict
    /\ hdata = << >>
    /\ hop = [op |-> "__init__", message |-> << >>, kwargs |-> EmptyDict, outcome |-> "returned"]
    /\ hcall = [name |-> "", params |-> EmptyDict]
    /\ hncalls = 0
    /\ hnops = 0

Init == DispatchInit /\ XInit /\ EInit /\ HelperIdle /\ GInit

SpecDispatch == Init /\ [][DispatchNext]_vars

InitTransport == DispatchIdle /\ XInit /\ EInit /\ HelperIdle /\ GInit

SpecTransport == InitTransport /\ [][XNext]_vars

InitEncode == DispatchIdle /\ XInit /\ EInit /\ HelperIdle /\ GInit

SpecEncode == InitEncode /\ [][ENext]_vars

InitHelper == DispatchIdle /\ XInit /\ EInit /\ HelperInit /\ GInit

SpecHelper == InitHelper /\ [][HNext]_vars

InitGhostlist == DispatchIdle /\ XInit /\ EInit /\ HelperIdle /\ GInit

SpecGhostlist == InitGhostlist /\ [][GNext]_vars

====
